---- MODULE Spec2Model ----
(***************************************************************************)
(* Model of the HTTP server framework: request parsing                     *)
(* (src/src/requests/request.rs), routing and middleware chains            *)
(* (src/src/routing/route.rs) and the per-connection loop                  *)
(* (src/src/server/server.rs).  Text is modelled as TLA+ strings handled   *)
(* character by character with Len, SubSeq and \o.                         *)
(***************************************************************************)
EXTENDS Integers, Sequences, FiniteSets, TLC

(***************************************************************************)
(* Bounds of the model.                                                    *)
(***************************************************************************)
MaxRouters == 2
MaxGlobalMw == 2
MaxReads == 2
MaxSegments == 3
MaxHeaders == 2

(***************************************************************************)
(* Text helpers: the std::str operations the code uses.                    *)
(***************************************************************************)
Ch(s, i) == SubSeq(s, i, i)

DropFirst(s, n) == SubSeq(s, n + 1, Len(s))

starts_with(s, p) == Len(p) <= Len(s) /\ SubSeq(s, 1, Len(p)) = p

ends_with(s, p) == Len(p) <= Len(s) /\ SubSeq(s, Len(s) - Len(p) + 1, Len(s)) = p

\* Index of the first occurrence of pat in s at or after position i, 0 if none.
RECURSIVE Find(_, _, _)
Find(s, pat, i) ==
    IF i + Len(pat) - 1 > Len(s) THEN 0
    ELSE IF SubSeq(s, i, i + Len(pat) - 1) = pat THEN i
    ELSE Find(s, pat, i + 1)

\* str::split(pat): always at least one piece, empty pieces are kept.
RECURSIVE split(_, _)
split(s, pat) ==
    LET i == Find(s, pat, 1)
    IN  IF i = 0 THEN <<s>>
        ELSE <<SubSeq(s, 1, i - 1)>> \o split(DropFirst(s, i + Len(pat) - 1), pat)

\* str::split_once(pat): None when pat does not occur.
split_once(s, pat) ==
    LET i == Find(s, pat, 1)
    IN  IF i = 0 THEN [some |-> FALSE]
        ELSE [some |-> TRUE, left |-> SubSeq(s, 1, i - 1),
              right |-> DropFirst(s, i + Len(pat) - 1)]

\* char::is_whitespace, for the characters the texts of the model contain.
IsWhitespace(c) == c \in {" ", "\t", "\n", "\r", "\f"}

\* str::split_whitespace: maximal runs of non-whitespace characters.
RECURSIVE SplitWs(_, _, _)
SplitWs(s, i, cur) ==
    IF i > Len(s) THEN (IF cur = "" THEN <<>> ELSE <<cur>>)
    ELSE IF IsWhitespace(Ch(s, i))
         THEN (IF cur = "" THEN <<>> ELSE <<cur>>) \o SplitWs(s, i + 1, "")
         ELSE SplitWs(s, i + 1, cur \o Ch(s, i))

split_whitespace(s) == SplitWs(s, 1, "")

RECURSIVE trim_start(_)
trim_start(s) ==
    IF s # "" /\ IsWhitespace(Ch(s, 1)) THEN trim_start(DropFirst(s, 1)) ELSE s

RECURSIVE trim_end(_)
trim_end(s) ==
    IF s # "" /\ IsWhitespace(Ch(s, Len(s)))
    THEN trim_end(SubSeq(s, 1, Len(s) - 1)) ELSE s

trim(s) == trim_end(trim_start(s))

\* str::strip_prefix / strip_suffix: None when s does not start / end with p.
strip_prefix(s, p) ==
    IF starts_with(s, p) THEN [some |-> TRUE, rest |-> DropFirst(s, Len(p))]
    ELSE [some |-> FALSE]

strip_suffix(s, p) ==
    IF ends_with(s, p) THEN [some |-> TRUE, rest |-> SubSeq(s, 1, Len(s) - Len(p))]
    ELSE [some |-> FALSE]

(***************************************************************************)
(* HashMap<String, String>: a function on a finite set of keys.            *)
(***************************************************************************)
HashMap_new == [k \in {} |-> ""]

insert(m, k, v) == [x \in (DOMAIN m) \cup {k} |-> IF x = k THEN v ELSE m[x]]

contains_key(m, k) == k \in DOMAIN m

(***************************************************************************)
(* HTTPRequest::new and its helpers.                                       *)
(***************************************************************************)
\* The checks on the request line, given the lines of the head section (the
\* request line is read only when there is one) and the tokens of the line.
RequestLineTokens(first_line_parts) ==
    IF Len(first_line_parts) # 3
    THEN [ok |-> FALSE, err |-> "Invalid request line format"]
    ELSE [ok |-> TRUE, method |-> first_line_parts[1],
          full_route |-> first_line_parts[2], version |-> first_line_parts[3]]

RequestLine(first_line_and_headers) ==
    IF Len(first_line_and_headers) = 0
    THEN [ok |-> FALSE, err |-> "Empty request"]
    ELSE RequestLineTokens(split_whitespace(first_line_and_headers[1]))

extract_method_route_and_version(request) ==
    RequestLine(split(split(request, "\r\n\r\n")[1], "\r\n"))

RECURSIVE InsertHeaders(_, _, _)
InsertHeaders(lines, i, m) ==
    IF i > Len(lines) THEN m
    ELSE LET kv == split_once(lines[i], ":")
         IN  InsertHeaders(lines, i + 1,
                 IF kv.some THEN insert(m, trim(kv.left), trim(kv.right)) ELSE m)

extract_headers(request) ==
    InsertHeaders(Tail(split(split(request, "\r\n\r\n")[1], "\r\n")), 1, HashMap_new)

RECURSIVE InsertParams(_, _, _)
InsertParams(pairs, i, m) ==
    IF i > Len(pairs) THEN m
    ELSE LET kv == split_once(pairs[i], "=")
         IN  InsertParams(pairs, i + 1,
                 IF kv.some THEN insert(m, kv.left, kv.right) ELSE m)

extract_query_params(full_route) ==
    LET pq == split_once(full_route, "?")
    IN  IF pq.some
        THEN [path |-> pq.left,
              query_params |-> InsertParams(split(pq.right, "&"), 1, HashMap_new)]
        ELSE [path |-> full_route, query_params |-> HashMap_new]

\* The request built from the pieces HTTPRequest::new computes: the parts
\* around the blank line, the request line, the path and query parameters.
RequestOf(parts, mrv, pq, headers_map) ==
    [ok |-> TRUE,
     req |-> [method |-> mrv.method,
              route |-> pq.path,
              version |-> mrv.version,
              headers |-> headers_map,
              body |-> IF Len(parts) >= 2 THEN parts[2] ELSE "",
              route_params |-> HashMap_new,
              query_params |-> pq.query_params]]

ParsedFrom(request, mrv) ==
    IF ~mrv.ok THEN [ok |-> FALSE, err |-> mrv.err]
    ELSE RequestOf(split(request, "\r\n\r\n"), mrv,
                   extract_query_params(mrv.full_route), extract_headers(request))

HTTPRequest_new(request) ==
    ParsedFrom(request, extract_method_route_and_version(request))

get_header(req, header) ==
    IF contains_key(req.headers, header)
    THEN [some |-> TRUE, value |-> req.headers[header]]
    ELSE [some |-> FALSE]

param(req, key, default) ==
    IF contains_key(req.route_params, key) THEN req.route_params[key] ELSE default

(***************************************************************************)
(* HTTPResponse: the response constructors used by the server and the      *)
(* router (module responses).                                              *)
(***************************************************************************)
HTTPResponse_new(code, body) == [code |-> code, body |-> body]

not_found(msg) == HTTPResponse_new(404, msg)

(***************************************************************************)
(* Middleware: fn(HTTPRequest) -> Result<HTTPRequest, HTTPResponse>.       *)
(* The named functions of main.rs, and three further functions of the     *)
(* same type: stamp returns Ok with a changed request, deny_404 returns    *)
(* Err with a 404 response, hide_404 does so unless the request carries an *)
(* API key.                                                                *)
(***************************************************************************)
MwOk(req) == [ok |-> TRUE, val |-> req]

MwErr(res) == [ok |-> FALSE, val |-> res]

api_key_check(req) ==
    LET key == get_header(req, "X-API-Key")
    IN  IF key.some /\ key.value # "" THEN MwOk(req)
        ELSE MwErr(HTTPResponse_new(401, "API key required"))

admin_check(req) ==
    LET key == get_header(req, "X-Admin-Key")
    IN  IF key.some /\ key.value = "supersecret" THEN MwOk(req)
        ELSE MwErr(HTTPResponse_new(403, "Admin access required"))

stamp(req) ==
    LET seen == get_header(req, "X-Stamp")
    IN  MwOk([req EXCEPT !.headers =
                 insert(req.headers, "X-Stamp",
                        (IF seen.some THEN seen.value ELSE "") \o "s")])

deny_404(req) == MwErr(not_found("Denied"))

hide_404(req) ==
    IF get_header(req, "X-API-Key").some THEN MwOk(req)
    ELSE MwErr(not_found("Nothing here"))

Middleware(name, req) ==
    CASE name = "request_logger" -> MwOk(req)
      [] name = "global_cors" -> MwOk(req)
      [] name = "security_check" -> MwOk(req)
      [] name = "maintenance_mode" -> MwOk(req)
      [] name = "api_key_check" -> api_key_check(req)
      [] name = "admin_check" -> admin_check(req)
      [] name = "rate_limit" -> MwOk(req)
      [] name = "stamp" -> stamp(req)
      [] name = "deny_404" -> deny_404(req)
      [] name = "hide_404" -> hide_404(req)

(***************************************************************************)
(* Handler: fn(HTTPRequest) -> HTTPResponse.  The handlers of main.rs      *)
(* (bodies abbreviated to the parts that depend on the request), and       *)
(* missing, a handler that answers 404.                                    *)
(***************************************************************************)
ValidUserBodies == {"{\"id\":1,\"name\":\"a\",\"email\":\"e\"}"}

Handler(name, req) ==
    CASE name = "home" -> HTTPResponse_new(200, "home")
      [] name = "about" -> HTTPResponse_new(200, "about")
      [] name = "list_users" -> HTTPResponse_new(200, "users")
      [] name = "get_user" -> HTTPResponse_new(200, "user " \o param(req, "id", "0"))
      [] name = "create_user" ->
            IF req.body \in ValidUserBodies THEN HTTPResponse_new(201, "created")
            ELSE HTTPResponse_new(400, "Invalid JSON")
      [] name = "update_user" ->
            IF req.body \in ValidUserBodies THEN HTTPResponse_new(200, "updated")
            ELSE HTTPResponse_new(400, "Invalid JSON")
      [] name = "delete_user" -> HTTPResponse_new(204, "")
      [] name = "health_check" -> HTTPResponse_new(200, "healthy")
      [] name = "admin_dashboard" -> HTTPResponse_new(200, "admin")
      [] name = "missing" -> not_found("User not found")

(***************************************************************************)
(* Call log: one entry for every middleware or handler invocation made     *)
(* while a request is processed, in the order the invocations happen.      *)
(* layer is "global", "router", "route" or "handler"; router and route     *)
(* are the positions of the router in the server and of the route in the   *)
(* router (0 where they do not apply); pos is the position in the chain.   *)
(***************************************************************************)
Call(layer, router, route, pos, name, arg, ok, ret) ==
    [layer |-> layer, router |-> router, route |-> route, pos |-> pos,
     name |-> name, arg |-> arg, ok |-> ok, ret |-> ret]

(***************************************************************************)
(* Route                                                                   *)
(***************************************************************************)
Route_new(method, path, handler) ==
    [method |-> method, path |-> path, handler |-> handler, middleware |-> <<>>]

Route_add_middleware(route, mw) ==
    [route EXCEPT !.middleware = Append(@, mw)]

\* Variant: an Err result is dropped and the chain goes on with the request
\* the middleware was given.
RECURSIVE RouteChain_continue(_, _, _, _, _, _)
RouteChain_continue(route, k, j, i, cur, calls) ==
    IF i > Len(route.middleware) THEN [ok |-> cur.ok, val |-> cur.val, calls |-> calls]
    ELSE LET r == Middleware(route.middleware[i], cur.val)
         IN  RouteChain_continue(route, k, j, i + 1, IF r.ok THEN r ELSE cur,
                 Append(calls, Call("route", k, j, i, route.middleware[i],
                                    cur.val, r.ok, r.val)))

\* The loop of Route::handle_request over self.middleware, from position i
\* with fold state cur; an Err state returns at once.
RECURSIVE RouteChain(_, _, _, _, _, _)
RouteChain(route, k, j, i, cur, calls) ==
    IF i > Len(route.middleware) THEN [ok |-> cur.ok, val |-> cur.val, calls |-> calls]
    ELSE IF ~cur.ok THEN [ok |-> FALSE, val |-> cur.val, calls |-> calls]
    ELSE LET r == Middleware(route.middleware[i], cur.val)
         IN  RouteChain(route, k, j, i + 1, r,
                 Append(calls, Call("route", k, j, i, route.middleware[i],
                                    cur.val, r.ok, r.val)))

\* The end of Route::handle_request: the handler is called with the request
\* the chain returned, or the chain's Err response is the result.
CallHandler(route, k, j, final_request) ==
    IF final_request.ok
    THEN LET res == Handler(route.handler, final_request.val)
         IN  [res |-> res,
              calls |-> Append(final_request.calls,
                           Call("handler", k, j, 0, route.handler,
                                final_request.val, TRUE, res))]
    ELSE [res |-> final_request.val, calls |-> final_request.calls]

\* Variant: the handler is given the request as it was before the route's
\* middleware ran.
CallHandlerStale(route, k, j, request, final_request) ==
    IF final_request.ok
    THEN LET res == Handler(route.handler, request)
         IN  [res |-> res,
              calls |-> Append(final_request.calls,
                           Call("handler", k, j, 0, route.handler,
                                request, TRUE, res))]
    ELSE [res |-> final_request.val, calls |-> final_request.calls]

Route_handle_request_stale(route, k, j, request, calls) ==
    CallHandlerStale(route, k, j, request,
                     RouteChain(route, k, j, 1, MwOk(request), calls))

Route_handle_request(route, k, j, request, calls) ==
    CallHandler(route, k, j, RouteChain(route, k, j, 1, MwOk(request), calls))

IsPlaceholder(pattern_part) ==
    starts_with(pattern_part, "{") /\ ends_with(pattern_part, "}")

\* Variant: the segment counts are not compared; the zip stops at the
\* shorter list.
matches_route_pattern_zip(route, path) ==
    LET pattern_parts == split(route.path, "/")
        path_parts == split(path, "/")
    IN  \A i \in 1..Len(pattern_parts) :
            i <= Len(path_parts) =>
                (IsPlaceholder(pattern_parts[i]) \/ pattern_parts[i] = path_parts[i])

matches_route_pattern(route, path) ==
    LET pattern_parts == split(route.path, "/")
        path_parts == split(path, "/")
    IN  /\ Len(pattern_parts) = Len(path_parts)
        /\ \A i \in 1..Len(pattern_parts) :
              IsPlaceholder(pattern_parts[i]) \/ pattern_parts[i] = path_parts[i]

(***************************************************************************)
(* Router                                                                  *)
(***************************************************************************)
Router_new(prefix) == [prefix |-> prefix, routes |-> <<>>, middleware |-> <<>>]

Router_add_middleware(router, mw) ==
    [router EXCEPT !.middleware = Append(@, mw)]

RECURSIVE AddAll(_, _, _)
AddAll(route, mws, i) ==
    IF i > Len(mws) THEN route
    ELSE AddAll(Route_add_middleware(route, mws[i]), mws, i + 1)

AddRoute(router, method, path, handler, mws) ==
    [router EXCEPT !.routes = Append(@, AddAll(Route_new(method, path, handler), mws, 1))]

get(router, path, handler, mws) == AddRoute(router, "GET", path, handler, mws)

post(router, path, handler, mws) == AddRoute(router, "POST", path, handler, mws)

put(router, path, handler, mws) == AddRoute(router, "PUT", path, handler, mws)

patch(router, path, handler, mws) == AddRoute(router, "PATCH", path, handler, mws)

delete(router, path, handler, mws) == AddRoute(router, "DELETE", path, handler, mws)

ParamName(pattern_part) ==
    LET a == strip_prefix(pattern_part, "{")
    IN  IF a.some THEN strip_suffix(a.rest, "}") ELSE [some |-> FALSE]

Min(a, b) == IF a <= b THEN a ELSE b

RECURSIVE InjectFrom(_, _, _, _)
InjectFrom(pattern_parts, path_parts, i, m) ==
    IF i > Min(Len(pattern_parts), Len(path_parts)) THEN m
    ELSE LET param_name == ParamName(pattern_parts[i])
         IN  InjectFrom(pattern_parts, path_parts, i + 1,
                 IF param_name.some THEN insert(m, param_name.rest, path_parts[i])
                 ELSE m)

inject_route_params_from_path(request, pattern, actual_path) ==
    [request EXCEPT !.route_params =
        InjectFrom(split(pattern, "/"), split(actual_path, "/"), 1, @)]

\* The loop of Router::handle_request over self.middleware.
RECURSIVE RouterChain(_, _, _, _, _)
RouterChain(router, k, i, cur, calls) ==
    IF i > Len(router.middleware) THEN [ok |-> cur.ok, val |-> cur.val, calls |-> calls]
    ELSE IF ~cur.ok THEN [ok |-> FALSE, val |-> cur.val, calls |-> calls]
    ELSE LET r == Middleware(router.middleware[i], cur.val)
         IN  RouterChain(router, k, i + 1, r,
                 Append(calls, Call("router", k, 0, i, router.middleware[i],
                                    cur.val, r.ok, r.val)))

\* Variant: a path without the prefix is matched whole.
RelativePath_lenient(router, full_path) ==
    IF router.prefix = "/" \/ ~starts_with(full_path, router.prefix)
    THEN [some |-> TRUE, rest |-> full_path]
    ELSE strip_prefix(full_path, router.prefix)

RelativePath(router, full_path) ==
    IF router.prefix = "/" THEN [some |-> TRUE, rest |-> full_path]
    ELSE strip_prefix(full_path, router.prefix)

\* The scan of self.routes from position j: the first route whose method and
\* pattern match handles the request.
\* Variant: the last matching route wins.
RECURSIVE FindRoute_last(_, _, _, _)
FindRoute_last(router, method, relative_path, j) ==
    IF j > Len(router.routes) THEN 0
    ELSE LET later == FindRoute_last(router, method, relative_path, j + 1)
         IN  IF later # 0 THEN later
             ELSE IF method = router.routes[j].method
                     /\ matches_route_pattern(router.routes[j], relative_path) THEN j
             ELSE 0

RECURSIVE FindRoute(_, _, _, _)
FindRoute(router, method, relative_path, j) ==
    IF j > Len(router.routes) THEN 0
    ELSE IF method = router.routes[j].method
            /\ matches_route_pattern(router.routes[j], relative_path) THEN j
    ELSE FindRoute(router, method, relative_path, j + 1)

\* The end of Router::handle_request for the matched route j: the route
\* handles the request the router's chain returned, or the chain's Err
\* response is the result.
RunRoute(router, k, j, processed_request) ==
    IF processed_request.ok
    THEN Route_handle_request(router.routes[j], k, j, processed_request.val,
                              processed_request.calls)
    ELSE [res |-> processed_request.val, calls |-> processed_request.calls]

\* Variant: the router's middleware runs before the result of the scan is
\* looked at.
MissAfter(processed_request) ==
    IF processed_request.ok
    THEN [res |-> not_found("No matching route found"),
          calls |-> processed_request.calls]
    ELSE [res |-> processed_request.val, calls |-> processed_request.calls]

Dispatch_mwfirst(router, k, request, calls, relative_path, j) ==
    IF j = 0
    THEN MissAfter(RouterChain(router, k, 1, MwOk(request), calls))
    ELSE RunRoute(router, k, j,
             RouterChain(router, k, 1,
                 MwOk(inject_route_params_from_path(
                          request, router.routes[j].path, relative_path)),
                 calls))

\* Variant: the parameters are injected after the router's middleware ran.
InjectAfter(processed_request, pattern, relative_path) ==
    IF processed_request.ok
    THEN [processed_request EXCEPT
             !.val = inject_route_params_from_path(@, pattern, relative_path)]
    ELSE processed_request

Dispatch_late(router, k, request, calls, relative_path, j) ==
    IF j = 0
    THEN [res |-> not_found("No matching route found"), calls |-> calls]
    ELSE RunRoute(router, k, j,
             InjectAfter(RouterChain(router, k, 1, MwOk(request), calls),
                         router.routes[j].path, relative_path))

\* Variant: the parameters are taken from the request's whole path, not from
\* the path the route was matched against.
Dispatch_fullpath(router, k, request, calls, relative_path, j) ==
    IF j = 0
    THEN [res |-> not_found("No matching route found"), calls |-> calls]
    ELSE RunRoute(router, k, j,
             RouterChain(router, k, 1,
                 MwOk(inject_route_params_from_path(
                          request, router.routes[j].path, request.route)),
                 calls))

\* Router::handle_request once the scan has found route j (0: none): the
\* parameters are injected from the relative path, then the router's
\* middleware runs.
Dispatch(router, k, request, calls, relative_path, j) ==
    IF j = 0
    THEN [res |-> not_found("No matching route found"), calls |-> calls]
    ELSE RunRoute(router, k, j,
             RouterChain(router, k, 1,
                 MwOk(inject_route_params_from_path(
                          request, router.routes[j].path, relative_path)),
                 calls))

\* Router::handle_request once the prefix has been stripped.
Routed_by(router, k, request, calls, relative_path) ==
    IF ~relative_path.some
    THEN [res |-> not_found("Route prefix not matched"), calls |-> calls]
    ELSE Dispatch(router, k, request, calls, relative_path.rest,
                  FindRoute(router, request.method, relative_path.rest, 1))

Router_handle_request(router, k, request, calls) ==
    Routed_by(router, k, request, calls, RelativePath(router, request.route))

(***************************************************************************)
(* Routers a server can be built from: the two routers of main.rs, and     *)
(* two more built with the same builder calls, whose routes overlap and    *)
(* whose middleware and handlers can answer 404.                           *)
(***************************************************************************)
PublicRouter ==
    get(get(Router_new("/"), "/", "home", <<>>), "/about", "about", <<>>)

ApiRouter ==
    get(delete(put(get(post(get(get(
        Router_add_middleware(Router_new("/api"), "api_key_check"),
        "/health", "health_check", <<>>),
        "/users", "list_users", <<>>),
        "/users", "create_user", <<>>),
        "/users/{id}", "get_user", <<>>),
        "/users/{id}", "update_user", <<>>),
        "/users/{id}", "delete_user", <<"admin_check", "rate_limit">>),
        "/admin", "admin_dashboard", <<"admin_check", "rate_limit">>)

ShadowRouter ==
    delete(get(get(get(
        Router_add_middleware(Router_new("/api"), "stamp"),
        "/users/{id}", "get_user", <<"stamp", "rate_limit">>),
        "/users/{name}", "about", <<"rate_limit">>),
        "/users/42", "health_check", <<>>),
        "/users/{id}", "missing", <<>>)

FallbackRouter ==
    delete(get(get(
        Router_add_middleware(Router_new("/"), "hide_404"),
        "/", "home", <<>>),
        "/api/users/{id}", "get_user", <<"stamp">>),
        "/api/users/{id}", "delete_user", <<"rate_limit", "deny_404", "stamp">>)

RouterPool == {ApiRouter, ShadowRouter, FallbackRouter}

GlobalMwPool == {"stamp", "deny_404"}

\* The texts a read can return.
Inputs ==
    { "GET / HTTP/1.1\r\nX-API-Key: k\r\n\r\n",
      "GET /api/users/42 HTTP/1.1\r\nX-API-Key: k\r\n\r\n",
      "GET /api/users/42 HTTP/1.1\r\n\r\n",
      "get /api/users/42 HTTP/1.1\r\nX-API-Key: k\r\n\r\n",
      "DELETE /api/users/42 HTTP/1.1\r\nX-API-Key: k\r\nX-Admin-Key: wrong\r\n\r\n",
      "garbage\r\n\r\n" }

(***************************************************************************)
(* HTTPServer::handle_connection, the part between a read and the write of *)
(* the response.                                                           *)
(***************************************************************************)
\* The loop over the connection-global middleware: an Err state is carried
\* through the remaining iterations without invoking anything.
RECURSIVE GlobalChain(_, _, _, _)
GlobalChain(mws, i, cur, calls) ==
    IF i > Len(mws) THEN [ok |-> cur.ok, val |-> cur.val, calls |-> calls]
    ELSE IF ~cur.ok THEN GlobalChain(mws, i + 1, cur, calls)
    ELSE LET r == Middleware(mws[i], cur.val)
         IN  GlobalChain(mws, i + 1, r,
                 Append(calls, Call("global", 0, 0, i, mws[i], cur.val, r.ok, r.val)))

\* Variant: only a 200 is final.
IsFinal_only200(res) == res.code = 200

\* A router's result is final when its status code is not 404.
IsFinal(res) == res.code # 404

\* The loop over the routers from position k; r is the result of router k.
RECURSIVE TryRouters(_, _, _, _)
RECURSIVE Tried(_, _, _, _)
Tried(rs, k, request, r) ==
    IF IsFinal(r.res) THEN [some |-> TRUE, res |-> r.res, calls |-> r.calls]
    ELSE TryRouters(rs, k + 1, request, r.calls)

TryRouters(rs, k, request, calls) ==
    IF k > Len(rs) THEN [some |-> FALSE, calls |-> calls]
    ELSE Tried(rs, k, request, Router_handle_request(rs[k], k, request, calls))

\* The response to write, the write_all call that writes it (via) and the
\* calls made on the way: after the routers ...
Answer(response) ==
    IF response.some
    THEN [res |-> response.res, via |-> "router", calls |-> response.calls]
    ELSE [res |-> not_found("No router matched this path"),
          via |-> "no_router", calls |-> response.calls]

\* ... after the global middleware ...
Route_or_reject(rs, final_request) ==
    IF ~final_request.ok
    THEN [res |-> final_request.val, via |-> "global_middleware",
          calls |-> final_request.calls]
    ELSE Answer(TryRouters(rs, 1, final_request.val, final_request.calls))

\* ... and after the parse.
Handle_parsed(rs, mws, parsed) ==
    IF ~parsed.ok
    THEN [res |-> HTTPResponse_new(400, "Bad Request: " \o parsed.err),
          via |-> "parse_error", calls |-> <<>>]
    ELSE Route_or_reject(rs, GlobalChain(mws, 1, MwOk(parsed.req), <<>>))

HandleRequest(request_str, rs, mws) ==
    Handle_parsed(rs, mws, HTTPRequest_new(request_str))

(***************************************************************************)
(* State.                                                                  *)
(*   phase       "building" while the server is being built, "running"     *)
(*               once run has bound the listener                           *)
(*   routers     HTTPServer.routers                                        *)
(*   middleware  HTTPServer.middleware                                     *)
(*   conns       one record for every accepted connection (its task),     *)
(*               indexed by the connection:                                *)
(*     pc        "Reading", "Writing" or "Closed": the await the task is   *)
(*               at (processing has no await and is part of the read step) *)
(*     buffer    the text of the last read                                 *)
(*     response  the response about to be written                          *)
(*     via       the write_all call about to write it                      *)
(*     calls     the call log of the request being processed               *)
(*     result    what handle_connection returned: "ok", or the I/O error   *)
(*               "read_err" or "write_err"; "none" while it runs           *)
(*     last      status code of the last response written, 0 if none       *)
(*   nreads      number of non-empty reads made so far                     *)
(* The functions that take no part of the server's state (the pattern     *)
(* matcher, the parser) are also applied on their own, to arguments held   *)
(* in variables of their own:                                              *)
(*   match_route, match_path   a route and a path, and                     *)
(*   match_result   <<b>> once route.matches_route_pattern(path) has       *)
(*                  returned b, <<>> before the call                       *)
(*   request_text   a request text, and                                    *)
(*   parse_result   what HTTPRequest::new(request_text) returned,          *)
(*                  [ok |-> FALSE, err |-> "unset"] before the call        *)
(***************************************************************************)
VARIABLES phase, routers, middleware, conns, nreads,
          match_route, match_path, match_result, request_text, parse_result

server == <<phase, routers, middleware, conns, nreads>>

matcher == <<match_route, match_path, match_result>>

parser == <<request_text, parse_result>>

vars == <<phase, routers, middleware, conns, nreads,
          match_route, match_path, match_result, request_text, parse_result>>

NoResponse == [code |-> 0, body |-> ""]

NewConn ==
    [pc |-> "Reading", buffer |-> "", response |-> NoResponse, via |-> "",
     calls |-> <<>>, result |-> "none", last |-> 0]

\* The task has returned result: its locals are dropped.
Closed(conn, result) ==
    [NewConn EXCEPT !.pc = "Closed", !.result = result, !.last = conn.last]

\* The connections the listener can accept, and those accepted so far.
Streams == {"s1"}

Conn == DOMAIN conns

\* No function is being applied on its own.
NoMatch ==
    /\ match_route = Route_new("", "", "")
    /\ match_path = ""
    /\ match_result = <<>>

Unparsed == [ok |-> FALSE, err |-> "unset"]

NoParse ==
    /\ request_text = ""
    /\ parse_result = Unparsed

\* HTTPServer::new
HTTPServer_new ==
    /\ phase = "building"
    /\ routers = <<>>
    /\ middleware = <<>>
    /\ conns = [c \in {} |-> NewConn]
    /\ nreads = 0

Init ==
    /\ HTTPServer_new
    /\ NoMatch
    /\ NoParse

add_middleware(mw) ==
    /\ phase = "building"
    /\ Len(middleware) < MaxGlobalMw
    /\ middleware' = Append(middleware, mw)
    /\ UNCHANGED <<phase, routers, conns, nreads>>
    /\ UNCHANGED <<matcher, parser>>

add_router(router) ==
    /\ phase = "building"
    /\ Len(routers) < MaxRouters
    /\ routers' = Append(routers, router)
    /\ UNCHANGED <<phase, middleware, conns, nreads>>
    /\ UNCHANGED <<matcher, parser>>

\* run: the listener is bound; routers and middleware are frozen.
run ==
    /\ phase = "building"
    /\ phase' = "running"
    /\ UNCHANGED <<routers, middleware, conns, nreads>>
    /\ UNCHANGED <<matcher, parser>>

\* run: accept connection c and spawn its task.
Accept(c) ==
    /\ phase = "running"
    /\ c \notin Conn
    /\ conns' = [d \in Conn \cup {c} |-> IF d = c THEN NewConn ELSE conns[d]]
    /\ UNCHANGED <<phase, routers, middleware, nreads>>
    /\ UNCHANGED <<matcher, parser>>

\* Variant: a parse error is returned like an I/O error.
Read_abort(c, input) ==
    /\ conns[c].pc = "Reading"
    /\ nreads < MaxReads
    /\ \E h \in {HandleRequest(input, routers, middleware)} :
          conns' = [conns EXCEPT ![c] =
                       IF h.via = "parse_error" THEN Closed(conns[c], "read_err")
                       ELSE [conns[c] EXCEPT !.pc = "Writing", !.buffer = input,
                                             !.response = h.res, !.via = h.via,
                                             !.calls = h.calls]]
    /\ nreads' = nreads + 1
    /\ UNCHANGED <<phase, routers, middleware>>
    /\ UNCHANGED <<matcher, parser>>

\* Variant: the next read is issued while a response is still to be written,
\* and its response takes the place of the pending one.
Read_pipelined(c, input) ==
    /\ conns[c].pc \in {"Reading", "Writing"}
    /\ nreads < MaxReads
    /\ \E h \in {HandleRequest(input, routers, middleware)} :
          conns' = [conns EXCEPT ![c].pc = "Writing", ![c].buffer = input,
                                 ![c].response = h.res, ![c].via = h.via,
                                 ![c].calls = h.calls]
    /\ nreads' = nreads + 1
    /\ UNCHANGED <<phase, routers, middleware>>
    /\ UNCHANGED <<matcher, parser>>

\* Variant: when no router answers, nothing is written and the loop goes on.
Read_drop(c, input) ==
    /\ conns[c].pc = "Reading"
    /\ nreads < MaxReads
    /\ \E h \in {HandleRequest(input, routers, middleware)} :
          conns' = IF h.via = "no_router" THEN conns
                   ELSE [conns EXCEPT ![c].pc = "Writing", ![c].buffer = input,
                                      ![c].response = h.res, ![c].via = h.via,
                                      ![c].calls = h.calls]
    /\ nreads' = nreads + 1
    /\ UNCHANGED <<phase, routers, middleware>>
    /\ UNCHANGED <<matcher, parser>>

\* stream.read returns n_bytes > 0 with the text input: parse, global
\* middleware, routers, everything up to the write.  h is the outcome of
\* handling the text.
Read(c, input) ==
    /\ conns[c].pc = "Reading"
    /\ nreads < MaxReads
    /\ \E h \in {HandleRequest(input, routers, middleware)} :
          conns' = [conns EXCEPT ![c].pc = "Writing", ![c].buffer = input,
                                 ![c].response = h.res, ![c].via = h.via,
                                 ![c].calls = h.calls]
    /\ nreads' = nreads + 1
    /\ UNCHANGED <<phase, routers, middleware>>
    /\ UNCHANGED <<matcher, parser>>

\* stream.read returns 0: the client disconnected, the loop breaks.
ReadEof(c) ==
    /\ conns[c].pc = "Reading"
    /\ conns' = [conns EXCEPT ![c] = Closed(conns[c], "ok")]
    /\ UNCHANGED <<phase, routers, middleware, nreads>>
    /\ UNCHANGED <<matcher, parser>>

\* Variant: the error is returned from run as well, which stops accepting.
ReadError_fatal(c) ==
    /\ conns[c].pc = "Reading"
    /\ conns' = [conns EXCEPT ![c] = Closed(conns[c], "read_err")]
    /\ phase' = "stopped"
    /\ UNCHANGED <<routers, middleware, nreads>>
    /\ UNCHANGED <<matcher, parser>>

\* stream.read fails: the error is returned.
ReadError(c) ==
    /\ conns[c].pc = "Reading"
    /\ conns' = [conns EXCEPT ![c] = Closed(conns[c], "read_err")]
    /\ UNCHANGED <<phase, routers, middleware, nreads>>
    /\ UNCHANGED <<matcher, parser>>

\* Variant: the connection is closed after each response.
Write_close(c) ==
    /\ conns[c].pc = "Writing"
    /\ conns' = [conns EXCEPT ![c] =
                    [NewConn EXCEPT !.pc = "Closed", !.result = "ok",
                                    !.last = conns[c].response.code]]
    /\ UNCHANGED <<phase, routers, middleware, nreads>>
    /\ UNCHANGED <<matcher, parser>>

\* stream.write_all succeeds: back to the top of the loop.
Write(c) ==
    /\ conns[c].pc = "Writing"
    /\ conns' = [conns EXCEPT ![c] =
                    [NewConn EXCEPT !.last = conns[c].response.code]]
    /\ UNCHANGED <<phase, routers, middleware, nreads>>
    /\ UNCHANGED <<matcher, parser>>

\* Variant: a failed write breaks out of the loop, which returns Ok.
WriteError_break(c) ==
    /\ conns[c].pc = "Writing"
    /\ conns' = [conns EXCEPT ![c] = Closed(conns[c], "ok")]
    /\ UNCHANGED <<phase, routers, middleware, nreads>>
    /\ UNCHANGED <<matcher, parser>>

\* stream.write_all fails: the error is returned.
WriteError(c) ==
    /\ conns[c].pc = "Writing"
    /\ conns' = [conns EXCEPT ![c] = Closed(conns[c], "write_err")]
    /\ UNCHANGED <<phase, routers, middleware, nreads>>
    /\ UNCHANGED <<matcher, parser>>

Next ==
    \/ \E mw \in GlobalMwPool : add_middleware(mw)
    \/ \E router \in RouterPool : add_router(router)
    \/ run
    \/ \E c \in Streams : Accept(c)
    \/ \E c \in Conn : \E input \in Inputs : Read(c, input)
    \/ \E c \in Conn : ReadEof(c)
    \/ \E c \in Conn : ReadError(c)
    \/ \E c \in Conn : Write(c)
    \/ \E c \in Conn : WriteError(c)

Spec == Init /\ [][Next]_vars

(***************************************************************************)
(* The server main.rs builds and runs, with several connections at a time. *)
(***************************************************************************)
MainRouters == <<PublicRouter, ApiRouter>>

MainMiddleware ==
    <<"request_logger", "global_cors", "security_check", "maintenance_mode">>

MainStreams == {"s1", "s2"}

MainInputs ==
    { "GET / HTTP/1.1\r\n\r\n",
      "GET /api/users/42 HTTP/1.1\r\nX-API-Key: k\r\n\r\n",
      "DELETE /api/users/42 HTTP/1.1\r\nX-API-Key: k\r\nX-Admin-Key: wrong\r\n\r\n",
      "DELETE /api/users/42 HTTP/1.1\r\nX-Admin-Key: wrong\r\n\r\n",
      "DELETE /api/users/42 HTTP/1.1\r\nX-API-Key: k\r\nX-Admin-Key: supersecret\r\n\r\n",
      "GET /missing HTTP/1.1\r\n\r\n",
      "GET /api/missing HTTP/1.1\r\n\r\n",
      "garbage\r\n\r\n" }

\* main: the server is built and run has bound the listener.
InitMain ==
    /\ phase = "running"
    /\ routers = MainRouters
    /\ middleware = MainMiddleware
    /\ conns = [c \in {} |-> NewConn]
    /\ nreads = 0
    /\ NoMatch
    /\ NoParse

\* A middleware or handler panics while the task of c processes a request:
\* the task spawned by run unwinds and ends, its stream is dropped.
Panic(c) ==
    /\ conns[c].pc = "Reading"
    /\ conns' = [conns EXCEPT ![c] = Closed(conns[c], "panic")]
    /\ UNCHANGED <<phase, routers, middleware, nreads>>
    /\ UNCHANGED <<matcher, parser>>

NextMain ==
    \/ \E c \in MainStreams : Accept(c)
    \/ \E c \in Conn : \E input \in MainInputs : Read(c, input)
    \/ \E c \in Conn : ReadEof(c)
    \/ \E c \in Conn : ReadError(c)
    \/ \E c \in Conn : Panic(c)
    \/ \E c \in Conn : Write(c)
    \/ \E c \in Conn : WriteError(c)

SpecMain == InitMain /\ [][NextMain]_vars

(***************************************************************************)
(* Connections on which no read and no write fails and every middleware    *)
(* and handler returns.  The server is the one of main.rs, or one whose     *)
(* global middleware, router middleware and handlers reject with 404.      *)
(* A write that has been started completes: stream.write_all(..).await     *)
(* returns, and the task is scheduled again.                               *)
(***************************************************************************)
InitLive ==
    /\ phase = "running"
    /\ routers \in {MainRouters, <<ShadowRouter, FallbackRouter>>}
    /\ middleware \in {MainMiddleware, <<"stamp", "deny_404">>}
    /\ conns = [c \in {} |-> NewConn]
    /\ nreads = 0
    /\ NoMatch
    /\ NoParse

NextLive ==
    \/ \E c \in MainStreams : Accept(c)
    \/ \E c \in Conn : \E input \in MainInputs : Read(c, input)
    \/ \E c \in Conn : ReadEof(c)
    \/ \E c \in Conn : Write(c)

SpecLive ==
    /\ InitLive
    /\ [][NextLive]_vars
    /\ \A c \in MainStreams : WF_vars(c \in Conn /\ Write(c))

(***************************************************************************)
(* The pattern matcher on its own: Route::matches_route_pattern applied to *)
(* every template and path of up to MaxSegments segments.                  *)
(***************************************************************************)
TemplateSegments == {"", "users", "{id}"}

PathSegments == {"", "users", "Users"}

\* The segments joined with "/".
RECURSIVE Join(_, _)
Join(segs, i) ==
    IF i > Len(segs) THEN ""
    ELSE IF i = Len(segs) THEN segs[i]
    ELSE segs[i] \o "/" \o Join(segs, i + 1)

TextsOf(segments) ==
    UNION {{Join(segs, 1) : segs \in [1..n -> segments]} : n \in 1..MaxSegments}

InitMatch ==
    /\ HTTPServer_new
    /\ NoParse
    /\ match_route \in {Route_new("GET", t, "home") : t \in TextsOf(TemplateSegments)}
    /\ match_path \in TextsOf(PathSegments)
    /\ match_result = <<>>

Match ==
    /\ match_result = <<>>
    /\ match_result' = <<matches_route_pattern(match_route, match_path)>>
    /\ UNCHANGED <<match_route, match_path>>
    /\ UNCHANGED <<server, parser>>

NextMatch == Match

SpecMatch == InitMatch /\ [][NextMatch]_vars

(***************************************************************************)
(* The parser on its own: HTTPRequest::new applied to texts made of a      *)
(* first line, up to MaxHeaders further lines and what follows the head.   *)
(***************************************************************************)
FirstLines ==
    { "", "garbage", "GET /", "GET / HTTP/1.1", "GET  /users?page=2   HTTP/1.1",
      "get /a?b HTTP/1.1 x", "POST ?x=1 HTTP/1.1" }

HeaderLines == {"X-Tag: a", "X-Tag:b ", "x-tag: c", "Host: h:80", "no colon"}

AfterHead == {"", "\r\n\r\n", "\r\n\r\nbody", "\r\n\r\nbo\r\n\r\ndy"}

\* The lines joined with "\r\n".
RECURSIVE JoinLines(_, _)
JoinLines(lines, i) ==
    IF i > Len(lines) THEN ""
    ELSE IF i = Len(lines) THEN lines[i]
    ELSE lines[i] \o "\r\n" \o JoinLines(lines, i + 1)

RequestTexts ==
    UNION {{JoinLines(<<first>> \o headers, 1) \o rest :
                first \in FirstLines, headers \in [1..n -> HeaderLines],
                rest \in AfterHead} : n \in 0..MaxHeaders}

InitParse ==
    /\ HTTPServer_new
    /\ NoMatch
    /\ request_text \in RequestTexts
    /\ parse_result = Unparsed

Parse ==
    /\ parse_result = Unparsed
    /\ parse_result' = HTTPRequest_new(request_text)
    /\ UNCHANGED request_text
    /\ UNCHANGED <<server, matcher>>

NextParse == Parse

SpecParse == InitParse /\ [][NextParse]_vars

(***************************************************************************)
(* Definitions used to state the properties.                               *)
(***************************************************************************)
\* The request handed to the routers: the result of the last global
\* middleware, or the parsed request when there is no global middleware.
RoutedRequest(c) ==
    LET g == SelectSeq(conns[c].calls, LAMBDA e : e.layer = "global")
    IN  IF g = <<>> THEN HTTPRequest_new(conns[c].buffer).req ELSE g[Len(g)].ret

\* The connection holds a response for a request that reached the routers.
Routed(c) == conns[c].pc = "Writing" /\ conns[c].via \in {"router", "no_router"}

\* What router k alone answers to the request req.
RouterResult(req, k) == Router_handle_request(routers[k], k, req, <<>>).res

\* Route j of router k matches the request req.
RouteMatches(req, k, j) ==
    \E rel \in {RelativePath(routers[k], req.route)} :
        /\ rel.some
        /\ routers[k].routes[j].method = req.method
        /\ matches_route_pattern(routers[k].routes[j], rel.rest)

IsMwErr(e) == e.layer # "handler" /\ ~e.ok

\* C1: once a middleware of any layer returns Err, nothing more is invoked
\* for that request: a rejection is the last entry of the call log.
C1_NothingAfterErr ==
    \A c \in Conn : \A i \in 1..Len(conns[c].calls) :
        IsMwErr(conns[c].calls[i]) => i = Len(conns[c].calls)

\* C2: when a middleware of any layer returned Err(R), the response written
\* is exactly R, whatever status code R carries.
C2_ErrIsWritten ==
    \A c \in Conn : \A i \in 1..Len(conns[c].calls) :
        (conns[c].pc = "Writing" /\ IsMwErr(conns[c].calls[i]))
            => conns[c].response = conns[c].calls[i].ret

\* The calls of the chain that leads to the handler of route j of router k.
ChainOf(calls, k, j) ==
    SelectSeq(calls, LAMBDA e :
        \/ e.layer = "global"
        \/ e.layer = "router" /\ e.router = k
        \/ e.layer \in {"route", "handler"} /\ e.router = k /\ e.route = j)

ExpectedChain(k, j) ==
    [i \in 1..Len(middleware) |-> <<"global", middleware[i]>>]
    \o [i \in 1..Len(routers[k].middleware) |-> <<"router", routers[k].middleware[i]>>]
    \o [i \in 1..Len(routers[k].routes[j].middleware) |->
            <<"route", routers[k].routes[j].middleware[i]>>]
    \o << <<"handler", routers[k].routes[j].handler>> >>

\* The request a step of the chain must receive after a step that returned
\* prev: prev itself, with the parameters of the matched route injected
\* where the chain passes from the parse or the global layer into the router.
Injected(k, j, req) ==
    inject_route_params_from_path(req, routers[k].routes[j].path,
        RelativePath(routers[k], req.route).rest)

\* C3: when a handler is invoked, the calls that led to it are the global
\* middleware, then the middleware of its router, then the middleware of its
\* route, then the handler, each in registration order; every middleware
\* returned Ok; and every step received the request the previous step
\* returned (the first step receives the parsed request; entering the router
\* the request carries the parameters of the matched route).
C3_LayerOrder ==
    \A c \in Conn : \A n \in 1..Len(conns[c].calls) :
        conns[c].calls[n].layer = "handler" =>
            \E k \in {conns[c].calls[n].router} :
            \E j \in {conns[c].calls[n].route} :
            \E ch \in {ChainOf(SubSeq(conns[c].calls, 1, n), k, j)} :
            \E ex \in {ExpectedChain(k, j)} :
            \E parsed \in {HTTPRequest_new(conns[c].buffer).req} :
                /\ Len(ch) = Len(ex)
                /\ \A i \in 1..Len(ch) :
                      /\ <<ch[i].layer, ch[i].name>> = ex[i]
                      /\ ch[i].ok
                      /\ LET prev == IF i = 1 THEN parsed ELSE ch[i - 1].ret
                             enters == /\ ch[i].layer # "global"
                                       /\ (i = 1 \/ ch[i - 1].layer = "global")
                         IN  ch[i].arg = IF enters THEN Injected(k, j, prev) ELSE prev

C3_Witness ==
    \E c \in Conn : \E n \in 1..Len(conns[c].calls) :
        /\ conns[c].calls[n].layer = "handler"
        /\ \A l \in {"global", "router", "route"} :
              \E i \in 1..n : conns[c].calls[i].layer = l
        /\ conns[c].calls[n].arg # HTTPRequest_new(conns[c].buffer).req
        /\ contains_key(conns[c].calls[n].arg.route_params, "id")

\* The routers whose own answer to the request req is not 404.
FinalRouters(req) == {k \in 1..Len(routers) : RouterResult(req, k).code # 404}

Least(S) == CHOOSE k \in S : \A m \in S : k <= m

\* C4: the response of a routed request is the answer of the first router
\* whose answer is not 404, and no later router is invoked; when every
\* router answers 404, or there is no router, it is the generic 404.
C4_FanOut ==
    \A c \in Conn : Routed(c) =>
        \E req \in {RoutedRequest(c)} : \E final \in {FinalRouters(req)} :
            IF final = {}
            THEN /\ conns[c].response =
                        HTTPResponse_new(404, "No router matched this path")
                 /\ conns[c].via = "no_router"
            ELSE /\ conns[c].response = RouterResult(req, Least(final))
                 /\ \A i \in 1..Len(conns[c].calls) :
                       conns[c].calls[i].router <= Least(final)

C4_Witness ==
    \E c \in Conn :
        /\ Routed(c)
        /\ Len(routers) = 2
        /\ FinalRouters(RoutedRequest(c)) = {1, 2}
        /\ RouterResult(RoutedRequest(c), 1) # RouterResult(RoutedRequest(c), 2)

\* C5: with routers [A, B], where A answers 404 and B has a route that
\* matches the method and path, the response written is B's response.
C5_SecondRouterAnswers ==
    \A c \in Conn : (Routed(c) /\ Len(routers) = 2) =>
        \E req \in {RoutedRequest(c)} :
            ( /\ RouterResult(req, 1).code = 404
              /\ \E j \in 1..Len(routers[2].routes) : RouteMatches(req, 2, j) )
            => conns[c].response = RouterResult(req, 2)

ParseFails(c) == ~HTTPRequest_new(conns[c].buffer).ok

\* C6: when the text of a read does not parse, the connection goes on to
\* write a 400 response with nothing invoked; once the 400 is written the
\* connection is reading again (it closes only if the write fails).
C6_ParseFailure ==
    [][\A c \in Conn :
          /\ (conns[c].pc = "Reading" /\ conns'[c].pc # "Reading"
                  /\ nreads' # nreads /\ ~HTTPRequest_new(conns'[c].buffer).ok) =>
                /\ conns'[c].pc = "Writing"
                /\ conns'[c].via = "parse_error"
                /\ conns'[c].response.code = 400
                /\ conns'[c].calls = <<>>
          /\ (conns[c].pc = "Writing" /\ ParseFails(c)) =>
                /\ conns[c].response.code = 400
                /\ conns[c].calls = <<>>
                /\ \/ conns'[c] = conns[c]
                   \/ /\ conns'[c].pc = "Reading"
                      /\ conns'[c].result = "none"
                      /\ conns'[c].last = 400
                   \/ conns'[c].pc = "Closed" /\ conns'[c].result = "write_err"]_vars

\* A valid request is answered by a handler after a 400 on the same connection.
C6_Witness ==
    \E c \in Conn :
        /\ conns[c].last = 400
        /\ conns[c].pc = "Writing"
        /\ conns[c].response.code = 200
        /\ \E i \in 1..Len(conns[c].calls) : conns[c].calls[i].layer = "handler"

\* C7: a connection closes only from Reading (a zero-byte read, returning
\* without error, or a read error) or from Writing with a write error; a
\* connection that leaves Writing otherwise is Reading again.
C7_ClosedOnlyByEofOrError ==
    [][\A c \in Conn :
          /\ (conns[c].pc # "Closed" /\ conns'[c].pc = "Closed") =>
                \/ conns[c].pc = "Reading" /\ conns'[c].result \in {"ok", "read_err"}
                \/ conns[c].pc = "Writing" /\ conns'[c].result = "write_err"
          /\ (conns[c].pc = "Writing" /\ conns'[c].pc \notin {"Writing", "Closed"}) =>
                conns'[c].pc = "Reading"
          /\ conns'[c].result = "ok" => conns[c].pc \in {"Reading", "Closed"}]_vars

\* Two responses have been written on one connection, which is reading again.
C7_Witness ==
    \E c \in Conn :
        conns[c].pc = "Reading" /\ nreads = 2 /\ Conn = {c} /\ conns[c].last = 404

\* C8: a failed write closes the connection with the error returned, and a
\* closed connection never reads or processes again.
C8_WriteFailureCloses ==
    [][\A c \in Conn :
          /\ (conns[c].pc = "Writing" /\ conns'[c].pc = "Closed") =>
                conns'[c].result = "write_err"
          /\ conns[c].pc = "Closed" => conns'[c] = conns[c]]_vars

C8_Witness ==
    \E c \in Conn :
        /\ conns[c].pc = "Closed"
        /\ conns[c].result = "write_err"
        /\ conns[c].last = 200

\* C9: every call made inside a router belongs to the earliest registered
\* route of that router whose method equals the request's method and whose
\* template matches the prefix-stripped path.
C9_FirstMatchWins ==
    \A c \in Conn : conns[c].calls # <<>> =>
        \E req \in {RoutedRequest(c)} : \A i \in 1..Len(conns[c].calls) :
            \E e \in {conns[c].calls[i]} :
                e.route # 0 =>
                    /\ RouteMatches(req, e.router, e.route)
                    /\ \A j \in 1..(e.route - 1) : ~RouteMatches(req, e.router, j)

\* A later route matches too, and only the first one is called.
C9_Witness ==
    \E c \in Conn : \E i \in 1..Len(conns[c].calls) :
        LET e == conns[c].calls[i]
        IN  /\ e.layer = "handler"
            /\ \E j \in (e.route + 1)..Len(routers[e.router].routes) :
                  RouteMatches(RoutedRequest(c), e.router, j)

PrefixFails(req, k) ==
    routers[k].prefix # "/" /\ ~starts_with(req.route, routers[k].prefix)

\* C10: a router whose prefix is not "/" answers a request whose path does
\* not start with the prefix with 404 "Route prefix not matched", and none of
\* its middleware or handlers is invoked (so nothing sees injected
\* parameters); a router with prefix "/" never gives that answer.
C10_PrefixMismatch ==
    \A c \in Conn : Routed(c) =>
        \E req \in {RoutedRequest(c)} : \A k \in 1..Len(routers) :
            /\ PrefixFails(req, k) =>
                  /\ Router_handle_request(routers[k], k, req, <<>>)
                        = [res |-> HTTPResponse_new(404, "Route prefix not matched"),
                           calls |-> <<>>]
                  /\ \A i \in 1..Len(conns[c].calls) : conns[c].calls[i].router # k
            /\ routers[k].prefix = "/" =>
                  RouterResult(req, k) # HTTPResponse_new(404, "Route prefix not matched")

\* A router with a prefix is skipped and the next router answers.
C10_Witness ==
    \E c \in Conn :
        /\ Routed(c)
        /\ Len(routers) = 2
        /\ PrefixFails(RoutedRequest(c), 1)
        /\ routers[2].prefix = "/"
        /\ conns[c].response.code = 200

(***************************************************************************)
(* The pattern matcher.                                                    *)
(***************************************************************************)
\* The segments of a template or a path.
SegmentsOf(text) == split(text, "/")

\* Matches as section 4.2 words it: equal segment counts and, position by
\* position, a placeholder against a non-empty segment or equal segments.
Matches(template, path) ==
    /\ Len(SegmentsOf(template)) = Len(SegmentsOf(path))
    /\ \A i \in 1..Len(SegmentsOf(template)) :
          \/ IsPlaceholder(SegmentsOf(template)[i]) /\ SegmentsOf(path)[i] # ""
          \/ SegmentsOf(template)[i] = SegmentsOf(path)[i]

\* C11: the matcher returns true exactly when template and path have the
\* same number of segments and at every position either the template
\* segment is a placeholder and the path segment is not empty, or the two
\* segments are equal.
C11_MatchesExactly ==
    match_result # <<>> =>
        (match_result[1] <=> Matches(match_route.path, match_path))

\* C12: a path whose segment count differs from the template's is never
\* matched, also when the two differ by a trailing slash only.
C12_SegmentCount ==
    (match_result # <<>>
        /\ Len(SegmentsOf(match_route.path)) # Len(SegmentsOf(match_path)))
    => match_result = <<FALSE>>

\* The path is the template with a slash appended, every segment before it
\* agrees, and the matcher has answered.
C12_Witness ==
    /\ match_result = <<FALSE>>
    /\ match_route.path = "/users"
    /\ match_path = "/users/"

(***************************************************************************)
(* Route parameters.                                                       *)
(***************************************************************************)
\* The path of a request as router k matches it: without the prefix.
RelativeOf(req, k) ==
    IF routers[k].prefix = "/" THEN req.route
    ELSE DropFirst(req.route, Len(routers[k].prefix))

\* The route of router k that handles the request (0: none).
MatchedRoute(req, k) == FindRoute(routers[k], req.method, RelativeOf(req, k), 1)

\* The bindings a template gives on a path: for every placeholder segment,
\* the text between the braces and the path's segment at that position.
Bindings(template, path) ==
    {<<SubSeq(SegmentsOf(template)[i], 2, Len(SegmentsOf(template)[i]) - 1),
       SegmentsOf(path)[i]>> :
        i \in {n \in 1..Len(SegmentsOf(template)) :
                  IsPlaceholder(SegmentsOf(template)[n])}}

PairsOf(m) == {<<key, m[key]>> : key \in DOMAIN m}

\* C13: every router-scoped middleware, route-scoped middleware and handler
\* invoked by router k receives route_params holding exactly the bindings of
\* the matched route's template on the prefix-stripped path: one for every
\* placeholder segment, and no other key.
C13_ParamsInjected ==
    \A c \in Conn : conns[c].calls # <<>> =>
        \E req \in {RoutedRequest(c)} : \A i \in 1..Len(conns[c].calls) :
            \E e \in {conns[c].calls[i]} :
                e.router # 0 =>
                    \E j \in {MatchedRoute(req, e.router)} :
                        /\ j # 0
                        /\ e.route \in {0, j}
                        /\ matches_route_pattern(routers[e.router].routes[j],
                                                 RelativeOf(req, e.router))
                        /\ PairsOf(e.arg.route_params) =
                              Bindings(routers[e.router].routes[j].path,
                                       RelativeOf(req, e.router))

\* A router with a prefix has run its own middleware, a route's middleware
\* and the handler, each with the binding of the one placeholder.
C13_Witness ==
    \E c \in Conn :
        /\ \A l \in {"router", "route", "handler"} :
              \E i \in 1..Len(conns[c].calls) :
                  /\ conns[c].calls[i].layer = l
                  /\ routers[conns[c].calls[i].router].prefix = "/api"
                  /\ PairsOf(conns[c].calls[i].arg.route_params) = {<<"id", "42">>}
        /\ RoutedRequest(c).route = "/api/users/42"

(***************************************************************************)
(* The parser.                                                             *)
(***************************************************************************)
\* The head section of a text, its lines and the tokens of its first line.
HeadOf(text) == split(text, "\r\n\r\n")[1]

LinesOf(text) == split(HeadOf(text), "\r\n")

TokensOf(text) == split_whitespace(LinesOf(text)[1])

Parsed == parse_result # Unparsed

\* C14: a text with an empty head fails to parse with "Empty request"; any
\* other text whose first line is not three whitespace-separated tokens
\* fails with "Invalid request line format"; a parsed request has a
\* non-empty method, path and version.
C14_ParseErrors ==
    Parsed =>
        /\ HeadOf(request_text) = "" =>
              parse_result = [ok |-> FALSE, err |-> "Empty request"]
        /\ (HeadOf(request_text) # "" /\ Len(TokensOf(request_text)) # 3) =>
              parse_result = [ok |-> FALSE, err |-> "Invalid request line format"]
        /\ parse_result.ok =>
              /\ parse_result.req.method # ""
              /\ parse_result.req.route # ""
              /\ parse_result.req.version # ""

\* The header lines of a text that contain a colon.
HeaderLinesOf(text) ==
    SelectSeq(Tail(LinesOf(text)), LAMBDA line : split_once(line, ":").some)

\* C15: a parsed request has the tokens of the request line, and every
\* header line with a colon is retrievable under its key as received with
\* its trimmed value, also when several lines share one key.
C15_RoundTrip ==
    (Parsed /\ parse_result.ok) =>
        /\ parse_result.req.method = TokensOf(request_text)[1]
        /\ starts_with(TokensOf(request_text)[2], parse_result.req.route)
        /\ parse_result.req.version = TokensOf(request_text)[3]
        /\ \A i \in 1..Len(HeaderLinesOf(request_text)) :
              \E kv \in {split_once(HeaderLinesOf(request_text)[i], ":")} :
                  get_header(parse_result.req, trim(kv.left))
                      = [some |-> TRUE, value |-> trim(kv.right)]

\* C18: a router-scoped middleware of router k is invoked only when the
\* request's path passed the prefix check of router k, receives a request
\* that holds the bindings of the matched route, and is invoked before every
\* route-scoped middleware and the handler of that router.
C18_RouterMiddlewareOrder ==
    \A c \in Conn : conns[c].calls # <<>> =>
        \E req \in {RoutedRequest(c)} : \A i \in 1..Len(conns[c].calls) :
            \E e \in {conns[c].calls[i]} :
                e.layer = "router" =>
                    /\ ~PrefixFails(req, e.router)
                    /\ MatchedRoute(req, e.router) # 0
                    /\ Bindings(routers[e.router].routes[MatchedRoute(req, e.router)].path,
                                RelativeOf(req, e.router))
                          \subseteq PairsOf(e.arg.route_params)
                    /\ \A n \in 1..Len(conns[c].calls) :
                          ( /\ conns[c].calls[n].router = e.router
                            /\ conns[c].calls[n].layer \in {"route", "handler"} )
                          => i < n

\* The middleware of a router with a prefix saw the binding of the matched
\* route, and a middleware of that route was invoked after it.
C18_Witness ==
    \E c \in Conn : \E i \in 1..Len(conns[c].calls) :
        /\ conns[c].calls[i].layer = "router"
        /\ conns[c].calls[i].name = "api_key_check"
        /\ PairsOf(conns[c].calls[i].arg.route_params) = {<<"id", "42">>}
        /\ i < Len(conns[c].calls)
        /\ conns[c].calls[i + 1].layer = "route"
        /\ conns[c].calls[i + 1].router = conns[c].calls[i].router

\* C20: for every request at most one handler is invoked, and the
\* router-scoped and route-scoped middleware invoked belong to at most one
\* router, whatever status codes handlers and middleware return.
C20_OneHandlerOneRouter ==
    \A c \in Conn :
        /\ Cardinality({i \in 1..Len(conns[c].calls) :
                            conns[c].calls[i].layer = "handler"}) <= 1
        /\ Cardinality({conns[c].calls[i].router :
                            i \in {n \in 1..Len(conns[c].calls) :
                                      conns[c].calls[n].layer \in {"router", "route"}}})
              <= 1

(***************************************************************************)
(* Several connections; the configuration of main.rs.                      *)
(***************************************************************************)
Failed(conn) == conn.pc = "Closed" /\ conn.result \in {"read_err", "write_err", "panic"}

\* C16: a step in which the task of one connection ends with an I/O error or
\* a panic changes no other connection (one that was reading, processing or
\* writing is exactly where it was, with the same request and response) and
\* leaves the listener running; at all times the listener can accept the
\* connections not yet accepted and a connection holding a response can
\* write it.
C16_FailureIsLocal ==
    /\ [][\A c \in Conn :
             (~Failed(conns[c]) /\ Failed(conns'[c])) =>
                 /\ phase' = "running"
                 /\ \A d \in Conn \ {c} : conns'[d] = conns[d]]_vars
    /\ [](\A s \in MainStreams \ Conn : ENABLED Accept(s))
    /\ [](\A d \in Conn : conns[d].pc = "Writing" => ENABLED Write(d))

\* One connection has failed; the other has had a response written since it
\* was accepted and holds the response to a further request.
C16_Witness ==
    /\ Conn = MainStreams
    /\ Failed(conns["s1"])
    /\ conns["s2"].pc = "Writing"
    /\ conns["s2"].last = 200
    /\ conns["s2"].response.code = 204

\* The text is a request DELETE /api/users/42 with the header X-Admin-Key: wrong.
DeleteWithWrongAdminKey(text) ==
    \E parsed \in {HTTPRequest_new(text)} :
        /\ parsed.ok
        /\ parsed.req.method = "DELETE"
        /\ parsed.req.route = "/api/users/42"
        /\ get_header(parsed.req, "X-Admin-Key") = [some |-> TRUE, value |-> "wrong"]

HasApiKey(text) ==
    \E key \in {get_header(HTTPRequest_new(text).req, "X-API-Key")} :
        key.some /\ key.value # ""

Invoked(calls, name) == \E i \in 1..Len(calls) : calls[i].name = name

\* The response is the Err of the route-scoped middleware admin_check, which
\* is the last thing invoked.
RejectedByAdminCheck(conn) ==
    /\ conn.response = HTTPResponse_new(403, "Admin access required")
    /\ conn.calls # <<>>
    /\ \E e \in {conn.calls[Len(conn.calls)]} :
          /\ e.layer = "route"
          /\ e.name = "admin_check"
          /\ ~e.ok
          /\ e.ret = conn.response

\* C17 as stated: with the configuration of main, DELETE /api/users/42 with
\* X-Admin-Key: wrong is answered with admin_check's 403, and neither
\* rate_limit nor delete_user is invoked.
C17_AdminCheck403 ==
    \A c \in Conn :
        (conns[c].pc = "Writing" /\ DeleteWithWrongAdminKey(conns[c].buffer)) =>
            /\ RejectedByAdminCheck(conns[c])
            /\ ~Invoked(conns[c].calls, "rate_limit")
            /\ ~Invoked(conns[c].calls, "delete_user")

\* C17 amended: the same request is answered with admin_check's 403 when it
\* also carries a non-empty X-API-Key, and with api_key_check's 401 when it
\* does not; in both cases neither rate_limit nor delete_user is invoked.
C17_AdminCheck403_WithApiKey ==
    \A c \in Conn :
        (conns[c].pc = "Writing" /\ DeleteWithWrongAdminKey(conns[c].buffer)) =>
            /\ IF HasApiKey(conns[c].buffer)
               THEN RejectedByAdminCheck(conns[c])
               ELSE conns[c].response = HTTPResponse_new(401, "API key required")
            /\ ~Invoked(conns[c].calls, "rate_limit")
            /\ ~Invoked(conns[c].calls, "delete_user")

C17_Witness ==
    \E c \in Conn :
        /\ conns[c].pc = "Writing"
        /\ DeleteWithWrongAdminKey(conns[c].buffer)
        /\ HasApiKey(conns[c].buffer)
        /\ conns[c].response.code = 403
        /\ Invoked(conns[c].calls, "api_key_check")
        /\ Invoked(conns[c].calls, "maintenance_mode")

(***************************************************************************)
(* One response for every request.                                         *)
(***************************************************************************)
\* C19: with no I/O error, a non-empty read always leaves its connection
\* holding a response to write (whether the text parsed, a middleware
\* rejected it or no route matched); a connection holding a response takes
\* one step only, the write of that response, after which it reads again;
\* and that write eventually happens.
C19_EveryReadAnswered ==
    /\ [][nreads' # nreads =>
             \E c \in Conn :
                 /\ conns[c].pc = "Reading"
                 /\ conns'[c].pc = "Writing"
                 /\ conns'[c].response # NoResponse
                 /\ conns'[c].via \in {"parse_error", "global_middleware",
                                       "router", "no_router"}]_vars
    /\ [][\A c \in Conn :
             (conns[c].pc = "Writing" /\ conns'[c] # conns[c]) =>
                 /\ conns'[c].pc = "Reading"
                 /\ conns'[c].last = conns[c].response.code]_vars
    /\ \A c \in MainStreams :
          (c \in Conn /\ conns[c].pc = "Writing")
              ~> (c \in Conn /\ conns[c].pc = "Reading")

\* The answer to an unparsable text has been written, and the connection
\* holds the rejection of a global middleware for the next request.
C19_Witness ==
    \E c \in Conn :
        /\ conns[c].pc = "Writing"
        /\ conns[c].last = 400
        /\ conns[c].via = "global_middleware"

(***************************************************************************)
(* Routing misses.                                                         *)
(***************************************************************************)
\* Router k is responsible for the path of req, and none of its routes
\* matches the method and the relative path.
MissesIn(req, k) ==
    /\ ~PrefixFails(req, k)
    /\ \A j \in 1..Len(routers[k].routes) : ~RouteMatches(req, k, j)

\* C21: a router whose prefix check the path passes and none of whose routes
\* matches answers 404 "No matching route found" and invokes nothing: none
\* of its router-scoped middleware appears among the calls made for the
\* request.
C21_MissBeforeMiddleware ==
    \A c \in Conn : Routed(c) =>
        \E req \in {RoutedRequest(c)} : \A k \in 1..Len(routers) :
            MissesIn(req, k) =>
                /\ Router_handle_request(routers[k], k, req, <<>>)
                      = [res |-> not_found("No matching route found"),
                         calls |-> <<>>]
                /\ \A i \in 1..Len(conns[c].calls) : conns[c].calls[i].router # k

\* The /api router misses a request that its api_key_check would reject;
\* the response is the generic 404, not the 401.
C21_Witness ==
    \E c \in Conn :
        /\ Routed(c)
        /\ Len(routers) = 2
        /\ routers[2].middleware = <<"api_key_check">>
        /\ MissesIn(RoutedRequest(c), 2)
        /\ ~api_key_check(RoutedRequest(c)).ok
        /\ conns[c].response = not_found("No router matched this path")

(***************************************************************************)
(* Order of reads and writes on one connection.                            *)
(***************************************************************************)
\* C22: on every connection reads and writes alternate.  A response to write
\* arises only from a read issued while no response is pending, and it is
\* the response to the text of that read; while a response is pending the
\* connection does nothing but write it once (or close on a failed write),
\* after which nothing is pending.  Connections do not wait for each other:
\* a pending response can be written whatever state the others are in.
C22_InOrder ==
    /\ [][\A c \in Conn :
             (conns'[c].pc = "Writing" /\ conns'[c] # conns[c]) =>
                 /\ conns[c].pc = "Reading"
                 /\ conns[c].response = NoResponse
                 /\ nreads' = nreads + 1
                 /\ conns'[c].response =
                       HandleRequest(conns'[c].buffer, routers, middleware).res
                 /\ conns'[c].last = conns[c].last]_vars
    /\ [][\A c \in Conn :
             (conns[c].pc = "Writing" /\ conns'[c] # conns[c]) =>
                 /\ nreads' = nreads
                 /\ \/ /\ conns'[c].pc = "Reading"
                       /\ conns'[c].last = conns[c].response.code
                       /\ conns'[c].response = NoResponse
                    \/ /\ conns'[c].pc = "Closed"
                       /\ conns'[c].result = "write_err"]_vars
    /\ [](\A c \in Conn : conns[c].pc = "Writing" => ENABLED Write(c))
    /\ [](\A c \in Conn : conns[c].pc # "Writing" => conns[c].response = NoResponse)

\* The response to the read on one connection is still pending while the
\* other connection, with a response written, is reading again.
C22_Witness ==
    /\ Conn = MainStreams
    /\ conns["s1"].pc = "Writing"
    /\ conns["s1"].last = 0
    /\ conns["s2"].pc = "Reading"
    /\ conns["s2"].last = 200

(***************************************************************************)
(* The body of a request.                                                  *)
(***************************************************************************)
\* What follows the first blank line of a text; empty when there is none.
AfterFirstSeparator(text) ==
    IF split_once(text, "\r\n\r\n").some
    THEN split_once(text, "\r\n\r\n").right
    ELSE ""

\* C23: the body of a parsed request is everything that follows the first
\* blank line of the text, further blank lines included, and is empty when
\* the text has no blank line.
C23_BodyIsRest ==
    (Parsed /\ parse_result.ok) =>
        parse_result.req.body = AfterFirstSeparator(request_text)

====
